---------------------------- MODULE Spec2Model ----------------------------
(***************************************************************************)
(* The search page of src/App.js: the semi-persistent search term          *)
(* (useSemiPersistentState), the committed query (url), the stories        *)
(* reducer and the fetches that feed it.                                   *)
(*                                                                         *)
(* Strings are sequences of characters.  One step of the model is one turn *)
(* of the browser's event loop: a handler together with the re-render and  *)
(* the effects React runs for it before the next event is handled.         *)
(***************************************************************************)
EXTENDS Naturals, Sequences, FiniteSets, Bags, TLC

(* ------------------------------ bounds -------------------------------- *)

\* number of requests that may be outstanding at once
MaxInFlight == 2
\* longest hits list the server answers with
MaxHits == 1
\* longest payload of an event handed to the bare reducer
MaxPayload == 3

(* ------------------------- strings and data --------------------------- *)

\* the default handed to useSemiPersistentState
InitialSearch == <<"R", "e", "a", "c", "t">>

\* the strings the user types or pastes into the input
TypedTerms == { <<>>, <<" ">>, <<"r", "e">>, InitialSearch }

API_ENDPOINT == <<"https://hn.algolia.com/api/v1/search?query=">>

\* `${API_ENDPOINT}${searchTerm}`
BuildUrl(term) == API_ENDPOINT \o term

\* the part of a request url after the endpoint
QueryOf(u) == SubSeq(u, Len(API_ENDPOINT) + 1, Len(u))

\* JavaScript truthiness of a string: only the empty string is falsy
Truthy(str) == Len(str) > 0

\* the hits the server can answer with
StoryItems ==
    { [objectID |-> 0, title |-> <<"R", "e", "a", "c", "t">>],
      [objectID |-> 1, title |-> <<"R", "e", "d", "u", "x">>],
      [objectID |-> 2, title |-> <<"r", "e">>] }

SeqsUpTo(S, n) == UNION { [1..k -> S] : k \in 0..n }

Responses == SeqsUpTo(StoryItems, MaxHits)

Payloads == SeqsUpTo(StoryItems, MaxPayload)

(* ------------------------------ reducer ------------------------------- *)

\* what a throw leaves in place of a state
ThrownError == [error |-> "Error"]

\* the second argument of useReducer
InitialStories == [data |-> <<>>, isLoading |-> FALSE, isError |-> FALSE]

\* storiesReducer with a FAILURE branch that forgets to clear isLoading
storiesReducerKeepsLoading(state, action) ==
    CASE action.type = "STORIES_FETCH_INIT" ->
            [state EXCEPT !.isLoading = TRUE, !.isError = FALSE]
      [] action.type = "STORIES_FETCH_SUCCESS" ->
            [state EXCEPT !.isLoading = FALSE, !.isError = FALSE,
                          !.data = action.payload]
      [] action.type = "STORIES_FETCH_FAILURE" ->
            [state EXCEPT !.isError = TRUE]
      [] action.type = "REMOVE_STORY" ->
            [state EXCEPT !.data =
                SelectSeq(state.data,
                          LAMBDA story : action.payload.objectID # story.objectID)]
      [] OTHER -> ThrownError

\* storiesReducer with a FAILURE branch that also empties data
storiesReducerFailureClears(state, action) ==
    CASE action.type = "STORIES_FETCH_INIT" ->
            [state EXCEPT !.isLoading = TRUE, !.isError = FALSE]
      [] action.type = "STORIES_FETCH_SUCCESS" ->
            [state EXCEPT !.isLoading = FALSE, !.isError = FALSE,
                          !.data = action.payload]
      [] action.type = "STORIES_FETCH_FAILURE" ->
            [state EXCEPT !.isLoading = FALSE, !.isError = TRUE, !.data = <<>>]
      [] action.type = "REMOVE_STORY" ->
            [state EXCEPT !.data =
                SelectSeq(state.data,
                          LAMBDA story : action.payload.objectID # story.objectID)]
      [] OTHER -> ThrownError

\* data without the first entry that has the given objectID
RemoveFirst(data, id) ==
    LET hits == { i \in 1..Len(data) : data[i].objectID = id }
    IN  IF hits = {} THEN data
        ELSE LET first == CHOOSE i \in hits : \A k \in hits : i <= k
             IN  SubSeq(data, 1, first - 1) \o SubSeq(data, first + 1, Len(data))

\* storiesReducer with a REMOVE_STORY branch that stops at the first match
storiesReducerRemovesFirst(state, action) ==
    CASE action.type = "STORIES_FETCH_INIT" ->
            [state EXCEPT !.isLoading = TRUE, !.isError = FALSE]
      [] action.type = "STORIES_FETCH_SUCCESS" ->
            [state EXCEPT !.isLoading = FALSE, !.isError = FALSE,
                          !.data = action.payload]
      [] action.type = "STORIES_FETCH_FAILURE" ->
            [state EXCEPT !.isLoading = FALSE, !.isError = TRUE]
      [] action.type = "REMOVE_STORY" ->
            [state EXCEPT !.data = RemoveFirst(state.data, action.payload.objectID)]
      [] OTHER -> ThrownError

\* storiesReducer with a default branch that returns the state
storiesReducerIgnoresUnknown(state, action) ==
    CASE action.type = "STORIES_FETCH_INIT" ->
            [state EXCEPT !.isLoading = TRUE, !.isError = FALSE]
      [] action.type = "STORIES_FETCH_SUCCESS" ->
            [state EXCEPT !.isLoading = FALSE, !.isError = FALSE,
                          !.data = action.payload]
      [] action.type = "STORIES_FETCH_FAILURE" ->
            [state EXCEPT !.isLoading = FALSE, !.isError = TRUE]
      [] action.type = "REMOVE_STORY" ->
            [state EXCEPT !.data =
                SelectSeq(state.data,
                          LAMBDA story : action.payload.objectID # story.objectID)]
      [] OTHER -> state

storiesReducer(state, action) ==
    CASE action.type = "STORIES_FETCH_INIT" ->
            [state EXCEPT !.isLoading = TRUE, !.isError = FALSE]
      [] action.type = "STORIES_FETCH_SUCCESS" ->
            [state EXCEPT !.isLoading = FALSE, !.isError = FALSE,
                          !.data = action.payload]
      [] action.type = "STORIES_FETCH_FAILURE" ->
            [state EXCEPT !.isLoading = FALSE, !.isError = TRUE]
      [] action.type = "REMOVE_STORY" ->
            [state EXCEPT !.data =
                SelectSeq(state.data,
                          LAMBDA story : action.payload.objectID # story.objectID)]
      [] OTHER -> ThrownError

(* --------------------------- local storage ---------------------------- *)

\* localStorage is modelled by the set of values held under the key
\* 'search': empty when the key is absent, else one string.

\* localStorage.getItem(key) || initialState
SeedValue(stored, initialState) ==
    IF stored = {} THEN initialState
    ELSE LET item == CHOOSE v \in stored : TRUE
         IN  IF Truthy(item) THEN item ELSE initialState

\* setItem that never replaces a value already stored
SetItemOnce(stored, value) == IF stored = {} THEN {value} ELSE stored

\* localStorage.setItem(key, value)
SetItem(stored, value) == {value}

(* ------------------------------- state -------------------------------- *)

VARIABLES
    store,          \* localStorage under 'search'
    storeAvailable, \* FALSE while access to localStorage throws
    searchTerm,     \* value of useSemiPersistentState
    isMounted,      \* isMounted.current
    url,            \* the committed request url
    stories,        \* the reducer's state
    inflight,       \* bag of the urls of the requests not yet settled
    crashed,        \* an uncaught exception has unmounted the application
    written,        \* history: setItem has run since this page load
    dataFor,        \* history: the url whose response filled stories.data
    lastEvent,      \* history: the handler that ran last
    dispatched      \* history: the action types that handler dispatched

vars == <<store, storeAvailable, searchTerm, isMounted, url, stories,
          inflight, crashed, written, dataFor, lastEvent, dispatched>>

NoUrl == <<>>

\* the first render of App: the hooks take their initial values
FirstRender(stored, available) ==
    /\ searchTerm' = (IF available THEN SeedValue(stored, InitialSearch)
                      ELSE InitialSearch)
    /\ url' = BuildUrl(searchTerm')
    /\ stories' = InitialStories
    /\ isMounted' = FALSE
    /\ inflight' = EmptyBag
    /\ crashed' = ~available
    /\ written' = FALSE
    /\ dataFor' = NoUrl
    /\ lastEvent' = "render"
    /\ dispatched' = <<>>

Init ==
    /\ store = {}
    /\ storeAvailable = TRUE
    /\ searchTerm = SeedValue(store, InitialSearch)
    /\ url = BuildUrl(searchTerm)
    /\ stories = InitialStories
    /\ isMounted = FALSE
    /\ inflight = EmptyBag
    /\ crashed = FALSE
    /\ written = FALSE
    /\ dataFor = NoUrl
    /\ lastEvent = "render"
    /\ dispatched = <<>>

Running == isMounted /\ ~crashed

(* ------------------------------ actions ------------------------------- *)

RECURSIVE ApplyAll(_, _)
ApplyAll(state, actions) ==
    IF actions = <<>> THEN state
    ELSE ApplyAll(storiesReducer(state, Head(actions)), Tail(actions))

\* the handler calls dispatchStories once for each of actions, in order
Dispatch(actions) ==
    /\ stories' = ApplyAll(stories, actions)
    /\ dispatched' = [i \in 1..Len(actions) |-> actions[i].type]

\* the synchronous part of handleFetchStories: dispatch INIT, issue the get
StartFetch(u) ==
    /\ Dispatch(<<[type |-> "STORIES_FETCH_INIT"]>>)
    /\ inflight' = inflight (+) SetToBag({u})

\* the effects of the first commit: the persistence effect only sets
\* isMounted.current, the fetch effect calls handleFetchStories
Mount ==
    /\ ~isMounted /\ ~crashed
    /\ isMounted' = TRUE
    /\ StartFetch(url)
    /\ lastEvent' = "mount"
    /\ UNCHANGED <<store, storeAvailable, searchTerm, url, crashed, written,
                   dataFor>>

\* a persistence effect that writes the value of the render before
PersistEffectStale(value) ==
    IF storeAvailable
    THEN /\ store' = SetItem(store, searchTerm)
         /\ written' = TRUE
         /\ crashed' = FALSE
    ELSE /\ crashed' = TRUE
         /\ UNCHANGED <<store, written>>

\* the persistence effect after a commit in which value changed
PersistEffect(value) ==
    IF storeAvailable
    THEN /\ store' = SetItem(store, value)
         /\ written' = TRUE
         /\ crashed' = FALSE
    ELSE /\ crashed' = TRUE
         /\ UNCHANGED <<store, written>>

\* an input handler that also commits the typed text as the query
HandleSearchInputRefetch(value) ==
    /\ Running
    /\ lastEvent' = "input"
    /\ IF value = searchTerm
       THEN /\ Dispatch(<<>>)
            /\ UNCHANGED <<searchTerm, store, written, crashed, url, inflight>>
       ELSE /\ BagCardinality(inflight) < MaxInFlight
            /\ searchTerm' = value
            /\ PersistEffect(value)
            /\ url' = BuildUrl(value)
            /\ StartFetch(url')
    /\ UNCHANGED <<storeAvailable, isMounted, dataFor>>

\* onChange of the input: setSearchTerm(event.target.value)
HandleSearchInput(value) ==
    /\ Running
    /\ lastEvent' = "input"
    /\ Dispatch(<<>>)
    /\ IF value = searchTerm
       THEN UNCHANGED <<searchTerm, store, written, crashed>>
       ELSE /\ searchTerm' = value
            /\ PersistEffect(value)
    /\ UNCHANGED <<storeAvailable, isMounted, url, inflight, dataFor>>

\* the submit button: disabled={!searchTerm}
SubmitEnabled == Truthy(searchTerm)

\* onSubmit of the form: setUrl(`${API_ENDPOINT}${searchTerm}`)
HandleSearchSubmit ==
    /\ Running
    /\ SubmitEnabled
    /\ lastEvent' = "submit"
    /\ LET next == BuildUrl(searchTerm)
       IN  IF next = url
           THEN /\ Dispatch(<<>>)
                /\ UNCHANGED <<url, inflight>>
           ELSE /\ BagCardinality(inflight) < MaxInFlight
                /\ url' = next
                /\ StartFetch(next)
    /\ UNCHANGED <<store, storeAvailable, searchTerm, isMounted, crashed,
                   written, dataFor>>

\* a success handler that drops the response to a superseded request
FetchSuccessIfCurrent(u, hits) ==
    /\ Running
    /\ BagIn(u, inflight)
    /\ inflight' = inflight (-) SetToBag({u})
    /\ IF u = url
       THEN /\ Dispatch(<<[type |-> "STORIES_FETCH_SUCCESS", payload |-> hits]>>)
            /\ dataFor' = u
       ELSE /\ Dispatch(<<>>)
            /\ UNCHANGED dataFor
    /\ lastEvent' = "response"
    /\ UNCHANGED <<store, storeAvailable, searchTerm, isMounted, url, crashed,
                   written>>

\* axios.get resolves: dispatch STORIES_FETCH_SUCCESS with the hits
FetchSuccess(u, hits) ==
    /\ Running
    /\ BagIn(u, inflight)
    /\ inflight' = inflight (-) SetToBag({u})
    /\ Dispatch(<<[type |-> "STORIES_FETCH_SUCCESS", payload |-> hits]>>)
    /\ dataFor' = u
    /\ lastEvent' = "response"
    /\ UNCHANGED <<store, storeAvailable, searchTerm, isMounted, url, crashed,
                   written>>

\* a catch block that swallows the rejection
FetchFailureSwallowed(u) ==
    /\ Running
    /\ BagIn(u, inflight)
    /\ inflight' = inflight (-) SetToBag({u})
    /\ Dispatch(<<>>)
    /\ lastEvent' = "response"
    /\ UNCHANGED <<store, storeAvailable, searchTerm, isMounted, url, crashed,
                   written, dataFor>>

\* axios.get rejects: the catch dispatches STORIES_FETCH_FAILURE
FetchFailure(u) ==
    /\ Running
    /\ BagIn(u, inflight)
    /\ inflight' = inflight (-) SetToBag({u})
    /\ Dispatch(<<[type |-> "STORIES_FETCH_FAILURE"]>>)
    /\ lastEvent' = "response"
    /\ UNCHANGED <<store, storeAvailable, searchTerm, isMounted, url, crashed,
                   written, dataFor>>

\* the button of a listed item; the list is rendered while not loading
HandleRemoveStory(item) ==
    /\ Running
    /\ ~stories.isLoading
    /\ \E i \in 1..Len(stories.data) : stories.data[i] = item
    /\ Dispatch(<<[type |-> "REMOVE_STORY", payload |-> item]>>)
    /\ lastEvent' = "remove"
    /\ UNCHANGED <<store, storeAvailable, searchTerm, isMounted, url, inflight,
                   crashed, written, dataFor>>

\* the browser makes localStorage unavailable, or available again
StoreAvailability ==
    /\ storeAvailable' = ~storeAvailable
    /\ lastEvent' = "storage"
    /\ Dispatch(<<>>)
    /\ UNCHANGED <<store, searchTerm, isMounted, url, inflight, crashed,
                   written, dataFor>>

\* the page is loaded again: only localStorage survives
Restart ==
    /\ lastEvent # "render"
    /\ FirstRender(store, storeAvailable)
    /\ UNCHANGED <<store, storeAvailable>>

Next ==
    \/ Mount
    \/ \E value \in TypedTerms : HandleSearchInput(value)
    \/ HandleSearchSubmit
    \/ \E u \in DOMAIN inflight, hits \in Responses : FetchSuccess(u, hits)
    \/ \E u \in DOMAIN inflight : FetchFailure(u)
    \/ \E item \in StoryItems : HandleRemoveStory(item)
    \/ StoreAvailability
    \/ Restart

Spec == Init /\ [][Next]_vars


(* ------------------------ the reducer on its own ---------------------- *)

\* any event may follow any other: the reducer is applied to events the
\* application need not produce in that order

DispatchInit ==
    /\ Dispatch(<<[type |-> "STORIES_FETCH_INIT"]>>)
    /\ UNCHANGED <<store, storeAvailable, searchTerm, isMounted, url, inflight,
                   crashed, written, dataFor, lastEvent>>

DispatchSuccess(payload) ==
    /\ Dispatch(<<[type |-> "STORIES_FETCH_SUCCESS", payload |-> payload]>>)
    /\ UNCHANGED <<store, storeAvailable, searchTerm, isMounted, url, inflight,
                   crashed, written, dataFor, lastEvent>>

DispatchFailure ==
    /\ Dispatch(<<[type |-> "STORIES_FETCH_FAILURE"]>>)
    /\ UNCHANGED <<store, storeAvailable, searchTerm, isMounted, url, inflight,
                   crashed, written, dataFor, lastEvent>>

DispatchRemove(item) ==
    /\ Dispatch(<<[type |-> "REMOVE_STORY", payload |-> item]>>)
    /\ UNCHANGED <<store, storeAvailable, searchTerm, isMounted, url, inflight,
                   crashed, written, dataFor, lastEvent>>

\* action types that are none of the reducer's four cases
UnknownTypes == { "UNKNOWN", "stories_fetch_init", "" }

\* an event of another type: a throw leaves the state as it was and is
\* not caught
DispatchUnknown(type) ==
    /\ LET next == storiesReducer(stories, [type |-> type])
       IN  IF next = ThrownError
           THEN /\ stories' = stories
                /\ crashed' = TRUE
           ELSE /\ stories' = next
                /\ UNCHANGED crashed
    /\ dispatched' = <<type>>
    /\ UNCHANGED <<store, storeAvailable, searchTerm, isMounted, url, inflight,
                   written, dataFor, lastEvent>>

NextReducer ==
    \/ DispatchInit
    \/ \E payload \in Payloads : DispatchSuccess(payload)
    \/ DispatchFailure
    \/ \E item \in StoryItems : DispatchRemove(item)
    \/ \E type \in UnknownTypes : DispatchUnknown(type)

SpecReducer == Init /\ [][NextReducer]_vars

(* ------------------- the list and the client-side filter -------------- *)

\* the list prop App hands to List while isLoading is false
DisplayedList == stories.data

\* String.prototype.toLowerCase on one character of the strings used here
ToLowerChar(c) ==
    CASE c = "A" -> "a" [] c = "C" -> "c" [] c = "D" -> "d" [] c = "E" -> "e"
      [] c = "R" -> "r" [] c = "T" -> "t" [] c = "U" -> "u" [] c = "X" -> "x"
      [] OTHER -> c

ToLowerCase(str) == [i \in 1..Len(str) |-> ToLowerChar(str[i])]

\* String.prototype.includes
Includes(str, sub) ==
    \E i \in 1..(Len(str) + 1) :
        /\ i + Len(sub) <= Len(str) + 1
        /\ SubSeq(str, i, i + Len(sub) - 1) = sub

\* the filter with a term that is compared as typed
searchedStoriesCaseSensitive(data, term) ==
    SelectSeq(data, LAMBDA story : Includes(ToLowerCase(story.title), term))

\* stories.data.filter(story =>
\*     story.title.toLowerCase().includes(searchTerm.toLowerCase()))
searchedStories(data, term) ==
    SelectSeq(data, LAMBDA story :
                  Includes(ToLowerCase(story.title), ToLowerCase(term)))

\* the terms typed into the input of the filtering page
FilterTerms ==
    { <<>>, <<"r", "e">>, <<"R", "E">>, <<"E", "A">>,
      <<"r", "e", "d", "u", "x">>, InitialSearch }

\* handleSearch of the filtering page: setSearchTerm(event.target.value),
\* then the persistence effect for the changed value
HandleSearch(value) ==
    /\ searchTerm' = value
    /\ store' = (IF value = searchTerm THEN store ELSE SetItem(store, value))
    /\ written' = (written \/ value # searchTerm)
    /\ lastEvent' = "input"
    /\ Dispatch(<<>>)
    /\ UNCHANGED <<storeAvailable, isMounted, url, inflight, crashed, dataFor>>

\* the hits of a fetch reach the reducer
FilterFetchSuccess(payload) ==
    /\ Dispatch(<<[type |-> "STORIES_FETCH_SUCCESS", payload |-> payload]>>)
    /\ lastEvent' = "response"
    /\ UNCHANGED <<store, storeAvailable, searchTerm, isMounted, url, inflight,
                   crashed, written, dataFor>>

NextFilter ==
    \/ \E value \in FilterTerms : HandleSearch(value)
    \/ \E payload \in Payloads : FilterFetchSuccess(payload)

SpecFilter == Init /\ [][NextFilter]_vars

(* ------------------------------ properties ---------------------------- *)

\* a string with no character other than a space (the empty string included)
IsBlank(str) == \A i \in 1..Len(str) : str[i] = " "

\* the step settled exactly one outstanding request
SettledOne == \E u \in DOMAIN inflight : inflight' = inflight (-) SetToBag({u})

\* C1: whatever sequence of STORIES_FETCH_INIT, STORIES_FETCH_SUCCESS,
\* STORIES_FETCH_FAILURE and REMOVE_STORY events the reducer is given from
\* the initial state, isLoading and isError are never both true.
NeverLoadingAndError == ~(stories.isLoading /\ stories.isError)

\* an error was recorded over data that an earlier success had delivered
ErrorAfterData ==
    /\ dispatched = <<"STORIES_FETCH_FAILURE">>
    /\ stories.isError
    /\ Len(stories.data) = MaxPayload

\* C2 (as claimed): a submit whose url equals the committed url dispatches
\* STORIES_FETCH_INIT and issues one more request.
ResubmitStartsFetch ==
    [][ (Running /\ lastEvent' = "submit" /\ BuildUrl(searchTerm) = url)
          => /\ dispatched' = <<"STORIES_FETCH_INIT">>
             /\ BagCardinality(inflight') = BagCardinality(inflight) + 1 ]_vars

\* C3: a submit that changes the committed url dispatches exactly one
\* STORIES_FETCH_INIT and issues exactly one request, for API_ENDPOINT +
\* term; a request that settles dispatches exactly one of SUCCESS and
\* FAILURE; isLoading turns true only where a fetch starts and false only
\* where one settles.
OneFetchCyclePerSubmit ==
    [][ /\ (Running /\ Running' /\ url' # url)
             => /\ lastEvent' = "submit"
                /\ url' = BuildUrl(searchTerm)
                /\ dispatched' = <<"STORIES_FETCH_INIT">>
                /\ inflight' = inflight (+) SetToBag({url'})
                /\ stories'.isLoading
        /\ (Running /\ Running' /\ inflight' # inflight /\ lastEvent' # "submit")
             => /\ lastEvent' = "response"
                /\ SettledOne
                /\ dispatched' \in { <<"STORIES_FETCH_SUCCESS">>,
                                     <<"STORIES_FETCH_FAILURE">> }
                /\ ~stories'.isLoading
        /\ (~stories.isLoading /\ stories'.isLoading)
             => /\ dispatched' = <<"STORIES_FETCH_INIT">>
                /\ BagCardinality(inflight') = BagCardinality(inflight) + 1
        /\ (Running' /\ stories.isLoading /\ ~stories'.isLoading)
             => /\ lastEvent' = "response"
                /\ SettledOne ]_vars

\* the fetch of a submitted term has run its whole cycle
SubmittedFetchSettled ==
    /\ Running
    /\ lastEvent = "response"
    /\ url # BuildUrl(InitialSearch)
    /\ dataFor = url
    /\ inflight = EmptyBag
    /\ ~stories.isLoading

\* C4 (as claimed): submission is disabled while the search term is empty or
\* blank, and no outstanding request has an empty or blank query.
NoBlankFetch ==
    /\ (Running /\ IsBlank(searchTerm)) => ~SubmitEnabled
    /\ \A u \in DOMAIN inflight : ~IsBlank(QueryOf(u))

\* C5: a response is never dropped as stale: whichever request settles, and
\* whatever the committed url is by then, the handler dispatches, and a
\* success makes that request's hits the data.
StaleResponseOverwrites ==
    [][ (Running /\ lastEvent' = "response")
          => /\ SettledOne
             /\ \/ /\ dispatched' = <<"STORIES_FETCH_SUCCESS">>
                   /\ inflight' = inflight (-) SetToBag({dataFor'})
                   /\ BagIn(dataFor', inflight)
                   /\ ~stories'.isLoading /\ ~stories'.isError
                \/ /\ dispatched' = <<"STORIES_FETCH_FAILURE">>
                   /\ stories'.data = stories.data
                   /\ dataFor' = dataFor ]_vars

\* nothing is outstanding, the committed url is B's, and the data shown came
\* with the response to A, which arrived last
StaleDataShown ==
    /\ Running
    /\ inflight = EmptyBag
    /\ lastEvent = "response"
    /\ dispatched = <<"STORIES_FETCH_SUCCESS">>
    /\ dataFor # NoUrl
    /\ dataFor # url
    /\ Len(stories.data) > 0

\* C6: typing changes the search term and its stored copy only; the url,
\* the FetchState and the outstanding requests stay as they are, and a
\* request is issued only by the mount and by a submit.
TypingStartsNoFetch ==
    [][ /\ lastEvent' = "input"
             => /\ url' = url
                /\ stories' = stories
                /\ inflight' = inflight
                /\ dataFor' = dataFor
                /\ isMounted' = isMounted
        /\ (\E u \in DOMAIN inflight' : CopiesIn(u, inflight') > CopiesIn(u, inflight))
             => lastEvent' \in {"mount", "submit"} ]_vars

\* text was typed and stored while the committed query stayed behind
TypedNotCommitted ==
    /\ Running
    /\ lastEvent = "input"
    /\ searchTerm # QueryOf(url)
    /\ store = {searchTerm}
    /\ stories.isLoading

\* C7 (as claimed): an unavailable store never stops the application.
StoreFailureNonFatal == ~crashed

\* C8: each keystroke that changes the search term leaves it stored under
\* 'search' once the persistence effect has completed, and a keystroke that
\* does not change it leaves the store as it was.
PersistOnEveryChange ==
    [][ (lastEvent' = "input" /\ ~crashed')
          => /\ searchTerm' # searchTerm => store' = {searchTerm'}
             /\ searchTerm' = searchTerm => store' = store ]_vars

\* a second keystroke has replaced the value an earlier one had stored
KeystrokePersisted ==
    /\ Running
    /\ lastEvent = "input"
    /\ written
    /\ store = {<<>>}
    /\ searchTerm = <<>>

\* C9 (as claimed): after a write the stored value is the query of the
\* committed url.
StoredIsCommittedQuery == (Running /\ written) => store = {QueryOf(url)}

\* C9 (amended): after a write the stored value is the live search term,
\* submitted or not.
StoredIsLiveTerm == (Running /\ written) => store = {searchTerm}

\* a response arrived while typed, unsubmitted text was already stored
UnsubmittedTextStored ==
    /\ Running
    /\ written
    /\ lastEvent = "response"
    /\ store = {searchTerm}
    /\ searchTerm # QueryOf(url)

\* C10 (as claimed): the term seeded at startup is the stored string
\* whenever one is stored, and the default only when none is.
SeedIsStoredValue ==
    (lastEvent = "render" /\ ~crashed)
        => searchTerm = (IF store = {} THEN InitialSearch
                         ELSE CHOOSE v \in store : TRUE)

\* C11 (as claimed): while isLoading is false the list handed to List is
\* the fetched data filtered by the search term.
DisplayedIsFilteredView ==
    (Running /\ ~stories.isLoading)
        => DisplayedList = searchedStories(stories.data, searchTerm)

\* the two characters are the same letter, in either case
SameLetter(c, d) ==
    \/ c = d
    \/ \E pair \in { <<"A", "a">>, <<"C", "c">>, <<"D", "d">>, <<"E", "e">>,
                     <<"R", "r">>, <<"T", "t">>, <<"U", "u">>, <<"X", "x">> } :
           {c, d} = {pair[1], pair[2]}

\* term occurs in title, letter case aside
ContainsIgnoringCase(title, term) ==
    \E off \in 0..Len(title) :
        /\ off + Len(term) <= Len(title)
        /\ \A j \in 1..Len(term) : SameLetter(title[off + j], term[j])

\* the two terms differ in letter case at most
SameIgnoringCase(t1, t2) ==
    /\ Len(t1) = Len(t2)
    /\ \A j \in 1..Len(t1) : SameLetter(t1[j], t2[j])

\* C12: the filter returns exactly the items whose title contains the term,
\* letter case aside, in their original order; the empty term keeps every
\* item; terms that differ only in letter case give the same result; React
\* (id 0), Redux (id 1) filtered by "redux" leaves the entry with id 1.
FilterSelectsByTitle ==
    LET items  == stories.data
        result == searchedStories(items, searchTerm)
        keep   == { i \in 1..Len(items) :
                      ContainsIgnoringCase(items[i].title, searchTerm) }
        react  == [objectID |-> 0, title |-> <<"R", "e", "a", "c", "t">>]
        redux  == [objectID |-> 1, title |-> <<"R", "e", "d", "u", "x">>]
    IN  /\ Len(result) = Cardinality(keep)
        /\ \A i \in keep :
               result[Cardinality({ k \in keep : k <= i })] = items[i]
        /\ searchedStories(items, <<>>) = items
        /\ \A t \in FilterTerms :
               SameIgnoringCase(t, searchTerm)
                   => searchedStories(items, t) = result
        /\ searchedStories(<<react, redux>>, <<"r", "e", "d", "u", "x">>)
               = <<redux>>

\* an upper-case term has picked the middle one of three fetched items
UpperCaseTermFilters ==
    /\ searchTerm = <<"E", "A">>
    /\ Len(stories.data) = 3
    /\ Len(searchedStories(stories.data, searchTerm)) = 1
    /\ stories.data[2].objectID = 0

\* C13: from any state, STORIES_FETCH_INIT gives isLoading, not isError and
\* the same data; STORIES_FETCH_SUCCESS gives neither flag and the payload
\* as data; STORIES_FETCH_FAILURE gives isError, not isLoading and the same
\* data; INIT then FAILURE leaves data as before the INIT.
ReducerFollowsTable ==
    LET init    == storiesReducer(stories, [type |-> "STORIES_FETCH_INIT"])
        failure == storiesReducer(stories, [type |-> "STORIES_FETCH_FAILURE"])
    IN  /\ init = [data |-> stories.data, isLoading |-> TRUE,
                   isError |-> FALSE]
        /\ failure = [data |-> stories.data, isLoading |-> FALSE,
                      isError |-> TRUE]
        /\ \A payload \in Payloads :
               storiesReducer(stories, [type |-> "STORIES_FETCH_SUCCESS",
                                        payload |-> payload])
                 = [data |-> payload, isLoading |-> FALSE, isError |-> FALSE]
        /\ storiesReducer(init, [type |-> "STORIES_FETCH_FAILURE"])
             = [data |-> stories.data, isLoading |-> FALSE, isError |-> TRUE]

\* a fetch was started over two items that an earlier success delivered
InitOverFetchedData ==
    /\ dispatched = <<"STORIES_FETCH_INIT">>
    /\ stories.isLoading
    /\ Len(stories.data) = 2
    /\ stories.data[1] # stories.data[2]

\* the items a REMOVE_STORY may carry: the fetched ones, one that shares
\* an objectID with a fetched one, and one whose objectID no hit has
RemoveTargets ==
    StoryItems \cup { [objectID |-> 1, title |-> <<"x">>],
                      [objectID |-> 9, title |-> <<"r", "e">>] }

\* C14: REMOVE_STORY drops exactly the entries with the item's objectID,
\* keeps the others in order, leaves isLoading and isError alone, changes
\* nothing when no entry has that id, and applied twice equals applied once.
RemoveStoryByObjectID ==
    \A item \in RemoveTargets :
        LET remove == [type |-> "REMOVE_STORY", payload |-> item]
            after  == storiesReducer(stories, remove)
            keep   == { i \in 1..Len(stories.data) :
                          stories.data[i].objectID # item.objectID }
        IN  /\ after.isLoading = stories.isLoading
            /\ after.isError = stories.isError
            /\ Len(after.data) = Cardinality(keep)
            /\ \A i \in keep :
                   after.data[Cardinality({ k \in keep : k <= i })]
                     = stories.data[i]
            /\ (keep = 1..Len(stories.data)) => after = stories
            /\ storiesReducer(after, remove) = after

\* a removal in the error state has left one item
RemovedDuringError ==
    /\ dispatched = <<"REMOVE_STORY">>
    /\ stories.isError
    /\ Len(stories.data) = 1

\* C15: an event whose type is none of the four is answered by a throw,
\* never by a state, and the throw is not swallowed.
UnknownEventRejected ==
    /\ \A type \in UnknownTypes :
           storiesReducer(stories, [type |-> type]) = ThrownError
    /\ (dispatched # <<>> /\ dispatched[1] \in UnknownTypes) => crashed

\* an unknown event was dispatched over fetched data
UnknownEventThrown ==
    /\ dispatched = <<"UNKNOWN">>
    /\ crashed
    /\ Len(stories.data) > 0

=============================================================================
